---- MODULE Spec2Model ----
(***************************************************************************)
(* Dictionary based tokenizer (tokenizer_rs): the sorted compressed prefix *)
(* tree of src/dict/mod.rs and the maximal matching search of              *)
(* src/tokenizer/th/mod.rs.                                                *)
(*                                                                         *)
(* A string is a sequence of bytes (naturals).  The characters of the      *)
(* model are a one-byte character, a two-byte character (a lead byte       *)
(* followed by a continuation byte) and the one-byte white space; every    *)
(* offset is a byte offset, counted from 0 as in the source.               *)
(***************************************************************************)
EXTENDS Integers, Sequences, FiniteSets, TLC

VARIABLES dict, sealed, words, phase, input, workers, out, source, query,
          tree, vec

vars == <<dict, sealed, words, phase, input, workers, out, source, query,
          tree, vec>>

---------------------------------------------------------------------------
(* Bounds of the model *)

\* longest dictionary word, in characters
MaxWordChars == 2
\* number of distinct words added to a dictionary
MaxWords == 3
\* longest white-space-free text, in characters
MaxTextChars == 4
\* longest text with white space, in characters, and the dictionary size used with it
MaxInputChars == 4
MaxInputWords == 1
\* longest line of a dictionary file, in characters, and the lines of a file
MaxLineChars == 3
MaxLines == 3
\* the same for the dictionaries that are queried, and the longest queried text
MaxQueryLineChars == 2
MaxQueryLines == 2
MaxQueryChars == 3
\* the same for the dictionaries with an empty entry that tokenize a text
MaxEntryChars == 1
MaxEntryLines == 2
\* the long words of a dictionary of short and long words, in characters, the
\* words of such a dictionary and the longest text it tokenizes, in characters
MaxDeepWordChars == 3
MaxDeepWords == 3
MaxDeepTextChars == 5
\* the nodes of a result tree, its root included
MaxTreeNodes == 5

---------------------------------------------------------------------------
(* Strings *)

Space == <<0>>
LetterA == <<1>>
LetterWide == <<3, 4>>
\* a second two-byte character with the same lead byte
LetterWide2 == <<3, 5>>

Letters == {LetterA, LetterWide}

\* the characters of the dictionary lines
DictLetters == {LetterA, LetterWide, LetterWide2}

\* char::len_utf8 of the character that starts with byte b
LenUtf8(b) == IF b = 3 THEN 2 ELSE 1

\* str::is_char_boundary
IsCharBoundary(s, k) ==
    \/ k = 0
    \/ k = Len(s)
    \/ k > 0 /\ k < Len(s) /\ s[k + 1] \notin {4, 5}

\* &s[a..b]; the source panics when a > b, b > len or a bound splits a character
SliceOk(s, a, b) ==
    a <= b /\ b <= Len(s) /\ IsCharBoundary(s, a) /\ IsCharBoundary(s, b)

Slice(s, a, b) == SubSeq(s, a + 1, b)

SliceFrom(s, a) == SubSeq(s, a + 1, Len(s))

\* str::starts_with: a byte-wise prefix test
StartsWith(s, p) ==
    Len(p) <= Len(s) /\ SubSeq(s, 1, Len(p)) = p

\* str::chars: the characters of s, each as its bytes
RECURSIVE Chars(_)
Chars(s) ==
    IF s = <<>> THEN <<>>
    ELSE LET n == IF LenUtf8(s[1]) <= Len(s) THEN LenUtf8(s[1]) ELSE Len(s)
         IN  <<SubSeq(s, 1, n)>> \o Chars(SubSeq(s, n + 1, Len(s)))

\* the order of char (its code point); -1 stands for Option::None, below every Some
CharCode(c) == IF Len(c) = 1 THEN c[1] ELSE c[1] * 256 + c[2]

FirstCharCode(s) == IF s = <<>> THEN -1 ELSE CharCode(Chars(s)[1])

RECURSIVE Concat(_)
Concat(ss) == IF ss = <<>> THEN <<>> ELSE Head(ss) \o Concat(Tail(ss))

\* every string of at most n characters drawn from cs
RECURSIVE StringsUpTo(_, _)
StringsUpTo(cs, n) ==
    IF n = 0 THEN {<<>>}
    ELSE LET shorter == StringsUpTo(cs, n - 1)
         IN  shorter \cup {s \o c : s \in shorter, c \in cs}

WordSet == StringsUpTo(Letters, MaxWordChars) \ {<<>>}
TextSet == StringsUpTo(Letters, MaxTextChars) \ {<<>>}
InputSet == StringsUpTo(Letters \cup {Space}, MaxInputChars)
\* the lines of a dictionary file; a line may be empty
LineSet == StringsUpTo(DictLetters, MaxLineChars)
QueryLineSet == StringsUpTo(DictLetters, MaxQueryLineChars)
QueryTextSet == StringsUpTo(DictLetters, MaxQueryChars)
EntrySet == StringsUpTo(Letters, MaxEntryChars)
\* words of one character, and long words in which no character occurs twice
DeepWordSet ==
    {w \in StringsUpTo(DictLetters, MaxDeepWordChars) :
        /\ Len(Chars(w)) \in {1, MaxDeepWordChars}
        /\ Cardinality({Chars(w)[k] : k \in 1..Len(Chars(w))}) = Len(Chars(w))}
DeepTextSet == StringsUpTo(DictLetters, MaxDeepTextChars) \ {<<>>}

---------------------------------------------------------------------------
(* The mutable dictionary: src/dict/mod.rs *)

\* Option<Vec<Node>>: <<>> is None, <<v>> is Some(v)
NoneChilds == <<>>
SomeChilds(v) == <<v>>

Node(childs, terminal, value) ==
    [childs |-> childs, terminal |-> terminal, value |-> value]

\* the comparison left after the first pair of characters
CommonPrefixOneChar(nc, vc) ==
    IF nc = <<>> \/ vc = <<>> THEN 0
    ELSE IF Head(nc) # Head(vc) THEN 0
    ELSE Len(Head(nc))

\* the inner loop of find_longest_prefix: bytes of the common prefix of the
\* zipped characters nc and vc
RECURSIVE CommonPrefixLen(_, _)
CommonPrefixLen(nc, vc) ==
    IF nc = <<>> \/ vc = <<>> THEN 0
    ELSE IF Head(nc) # Head(vc) THEN 0
    ELSE Len(Head(nc)) + CommonPrefixLen(Tail(nc), Tail(vc))

\* the loop left at the first node with no common prefix, whatever its order
RECURSIVE FlpLoopEager(_, _, _, _, _)
FlpLoopEager(nodes, value, i, index, longest) ==
    IF i >= Len(nodes) THEN <<index, longest>>
    ELSE LET node == nodes[i + 1]
             n == CommonPrefixLen(Chars(node.value), Chars(value))
         IN  IF n > longest
             THEN FlpLoopEager(nodes, value, i + 1, i, n)
             ELSE IF longest = 0
             THEN <<i, longest>>
             ELSE FlpLoopEager(nodes, value, i + 1, index, longest)

\* the outer loop of find_longest_prefix from node i (0-based) on
RECURSIVE FlpLoop(_, _, _, _, _)
FlpLoop(nodes, value, i, index, longest) ==
    IF i >= Len(nodes) THEN <<index, longest>>
    ELSE LET node == nodes[i + 1]
             n == CommonPrefixLen(Chars(node.value), Chars(value))
         IN  IF n > longest
             THEN FlpLoop(nodes, value, i + 1, i, n)
             ELSE IF FirstCharCode(node.value) > FirstCharCode(value) /\ longest = 0
             THEN <<i, longest>>
             ELSE FlpLoop(nodes, value, i + 1, index, longest)

\* the index started one past the length of nodes
find_longest_prefix_past(nodes, value) == FlpLoop(nodes, value, 0, Len(nodes) + 1, 0)

find_longest_prefix(nodes, value) == FlpLoop(nodes, value, 0, Len(nodes), 0)

\* the new node put after every other node
InsertLast(s, i, x) == Append(s, x)

\* Vec::insert(i, x)
InsertAt(s, i, x) == SubSeq(s, 1, i) \o <<x>> \o SubSeq(s, i + 1, Len(s))

\* Option::unwrap on childs; None is absent from every reachable dictionary
UnwrapChilds(c) == c[1]

\* the node marked terminal and its childs dropped
ExactMatchCleared(node) == [node EXCEPT !.terminal = TRUE, !.childs = SomeChilds(<<>>)]

\* the node taken as a prefix of the given value: the empty rest is added to
\* its childs
ExactMatchDescend(node) ==
    [node EXCEPT !.childs =
        SomeChilds(InsertAt(UnwrapChilds(node.childs), 0,
                            Node(SomeChilds(<<>>), TRUE, <<>>)))]

\* the node is the given value: it is marked terminal
ExactMatch(node) == [node EXCEPT !.terminal = TRUE]

\* the node cut to the given value, the rest of its value and its childs lost
GivenIsPrefixCut(node, len) ==
    Node(SomeChilds(<<>>), TRUE, Slice(node.value, 0, len))

\* the given value is a prefix of the node: the node is cut to the given value
\* and the rest of it becomes its only child
GivenIsPrefix(node, len) ==
    LET child == Node(node.childs, node.terminal, SliceFrom(node.value, len))
    IN  Node(SomeChilds(<<child>>), TRUE, Slice(node.value, 0, len))

RECURSIVE add_node(_, _)
add_node(nodes, value) ==
    LET r == find_longest_prefix(nodes, value)
        i == r[1]
        len == r[2]
    IN  IF len = 0
        THEN InsertAt(nodes, i, Node(SomeChilds(<<>>), TRUE, value))
        ELSE LET node == nodes[i + 1]
                 node_len == Len(node.value)
                 value_len == Len(value)
             IN  IF len = node_len
                 THEN IF len = value_len
                      THEN [nodes EXCEPT ![i + 1] = ExactMatch(node)]
                      ELSE [nodes EXCEPT ![i + 1].childs =
                               SomeChilds(add_node(UnwrapChilds(node.childs),
                                                   SliceFrom(value, len)))]
                 ELSE IF len >= value_len
                      THEN [nodes EXCEPT ![i + 1] = GivenIsPrefix(node, len)]
                      ELSE LET child == Node(node.childs, node.terminal,
                                             SliceFrom(node.value, len))
                               childs == add_node(<<child>>, SliceFrom(value, len))
                           IN  [nodes EXCEPT ![i + 1] =
                                   Node(SomeChilds(childs), FALSE,
                                        Slice(node.value, 0, len))]

\* try_merge: a node that is not terminal and has exactly one child takes
\* the merged child in
RECURSIVE try_merge(_)
try_merge(node) ==
    IF node.terminal THEN node
    ELSE IF node.childs = NoneChilds THEN node
    ELSE IF Len(UnwrapChilds(node.childs)) # 1 THEN node
    ELSE LET child == try_merge(UnwrapChilds(node.childs)[1])
         IN  Node(child.childs, child.terminal, node.value \o child.value)

\* Dict::new
DictNew == <<>>

\* the value added at the end of the root, the nodes not looked at
DictAddLast(root, value) ==
    IF \E k \in 1..Len(root) : root[k].value = value THEN root
    ELSE Append(root, Node(SomeChilds(<<>>), TRUE, value))

\* Dict::add
DictAdd(root, value) == add_node(root, value)

---------------------------------------------------------------------------
(* The sealed dictionary: src/dict/mod.rs *)

SizedNode(childs, terminal, value) ==
    [childs |-> childs, terminal |-> terminal, value |-> value]

\* the node sealed without its childs
SizedNodeFromLeaf(node) == SizedNode(<<>>, node.terminal, node.value)

\* impl From<Node> for SizedNode
RECURSIVE SizedNodeFrom(_)
SizedNodeFrom(node) ==
    LET cs == IF node.childs = NoneChilds THEN <<>> ELSE UnwrapChilds(node.childs)
    IN  SizedNode([k \in 1..Len(cs) |-> SizedNodeFrom(cs[k])],
                  node.terminal, node.value)

\* impl From<Dict> for SizedDict
SizedDictFrom(root) == [k \in 1..Len(root) |-> SizedNodeFrom(root[k])]

\* childs_matched: the nodes whose value is a prefix of value, in order, each
\* with the offset (in value) of the rest
RECURSIVE childs_matched(_, _)
childs_matched(nodes, value) ==
    IF nodes = <<>> THEN <<>>
    ELSE (IF StartsWith(value, Head(nodes).value)
          THEN <<Head(nodes)>>
          ELSE <<>>) \o childs_matched(Tail(nodes), value)

\* the for loop of terminals_prefix over the matched childs of one popped entry:
\* returns <<entries to push back, results>>
RECURSIVE TpChilds(_, _, _, _, _)
TpChilds(matched, value, offset, pushed, results) ==
    IF matched = <<>> THEN <<pushed, results>>
    ELSE LET child == Head(matched)
             remain == SliceFrom(value, Len(child.value))
             new_offset == offset + Len(child.value)
             results2 == IF child.terminal THEN Append(results, new_offset)
                         ELSE results
             pushed2 == IF Len(child.childs) > 0 /\ Len(remain) > 0
                        THEN Append(pushed, <<child.childs, remain, new_offset>>)
                        ELSE pushed
         IN  TpChilds(Tail(matched), value, offset, pushed2, results2)

\* the while loop of terminals_prefix over eval_queue
RECURSIVE TpLoop(_, _)
TpLoop(eval_queue, results) ==
    IF eval_queue = <<>> THEN results
    ELSE LET e == Head(eval_queue)
             r == TpChilds(childs_matched(e[1], e[2]), e[2], e[3], <<>>, results)
         IN  TpLoop(Tail(eval_queue) \o r[1], r[2])

\* the nodes given looked at alone, no entry pushed back
terminals_prefix_shallow(nodes, value, offset, results) ==
    TpChilds(childs_matched(nodes, SliceFrom(value, offset)),
             SliceFrom(value, offset), offset, <<>>, results)[2]

\* terminals_prefix(nodes, value, offset, results): results with the end offsets
\* of the dictionary words that start at offset appended
terminals_prefix(nodes, value, offset, results) ==
    TpLoop(<<<<nodes, SliceFrom(value, offset), offset>>>>, results)

---------------------------------------------------------------------------
(* maximal_matching: src/tokenizer/th/mod.rs *)

\* enum VertexState
VertexNone == [tag |-> "None", v |-> <<>>]
VertexCache(v) == [tag |-> "Cache", v |-> v]
VertexSome(v) == [tag |-> "Some", v |-> v]

\* the loop left after its first character, a known word found or not
CuLoopOneChar(nodes, value, consumed_bytes, results) ==
    IF consumed_bytes >= Len(value) THEN <<consumed_bytes, results>>
    ELSE LET consumed == consumed_bytes + LenUtf8(value[consumed_bytes + 1])
         IN  <<consumed, terminals_prefix(nodes, value, consumed, results)>>

\* the while loop of consume_unknown, one character each turn
RECURSIVE CuLoop(_, _, _, _)
CuLoop(nodes, value, consumed_bytes, results) ==
    IF consumed_bytes >= Len(value) THEN <<consumed_bytes, results>>
    ELSE LET consumed == consumed_bytes + LenUtf8(value[consumed_bytes + 1])
             found == terminals_prefix(nodes, value, consumed, results)
         IN  IF Len(found) > 0 THEN <<consumed, found>>
             ELSE CuLoop(nodes, value, consumed, found)

\* the rest of the text taken as the unknown word, no known word looked for
consume_unknown_to_end(nodes, value, offset, results) == <<Len(value), results>>

\* consume_unknown(nodes, value, offset, results): <<boundary of the unknown
\* word, results>>
consume_unknown(nodes, value, offset, results) ==
    CuLoop(nodes, value, offset, results)

\* the locals of one maximal_matching call at their first value
MMInit(text, base) ==
    [text |-> text, base |-> base, pc |-> "main",
     vertices |-> [k \in 1..Len(text) |-> VertexNone],
     queue |-> <<<<0, 0, 0>>>>,
     result |-> <<>>,
     i |-> 0, not_ended |-> TRUE,
     last_queue |-> 0, last_offset |-> 0]

\* the loop left after its first branch
NoneBranchFirst(branches, i, unknown_len, text_len, queue, vertex) ==
    IF branches = <<>> THEN <<queue, vertex, TRUE>>
    ELSE <<Append(queue, <<i, Head(branches), unknown_len>>),
           Append(vertex, Head(branches)),
           Head(branches) < text_len>>

\* the for loop over branches of the None arm: <<queue, vertex, not_ended>>
RECURSIVE NoneBranchLoop(_, _, _, _, _, _)
NoneBranchLoop(branches, i, unknown_len, text_len, queue, vertex) ==
    IF branches = <<>> THEN <<queue, vertex, TRUE>>
    ELSE LET v == Head(branches)
             vertex2 == Append(vertex, v)
             queue2 == Append(queue, <<i, v, unknown_len>>)
         IN  IF v >= text_len THEN <<queue2, vertex2, FALSE>>
             ELSE NoneBranchLoop(Tail(branches), i, unknown_len, text_len,
                                 queue2, vertex2)

\* the for loop over nexts of the Cache arm: <<queue, not_ended>>
RECURSIVE CacheBranchLoop(_, _, _, _, _)
CacheBranchLoop(nexts, i, unknown_len, text_len, queue) ==
    IF nexts = <<>> THEN <<queue, TRUE>>
    ELSE LET v == Head(nexts)
             queue2 == Append(queue, <<i, v, unknown_len>>)
         IN  IF v >= text_len THEN <<queue2, FALSE>>
             ELSE CacheBranchLoop(Tail(nexts), i, unknown_len, text_len, queue2)

\* the boundary marked as expanded, its branches never pushed
PeekedAsExpanded(peeked) == VertexSome(peeked)

\* what the unknown word branch writes at the isolated boundary
PeekedState(peeked) == VertexCache(peeked)

\* the None arm when no known word starts at offset: the state and whether
\* the arm left the while loop by break
UnknownArm(nodes, s, offset, unknown_len) ==
    LET cu == consume_unknown(nodes, s.text, offset, <<>>)
        cur_unknown_length == cu[1]
        queue2 == Append(s.queue,
                         <<s.i, cur_unknown_length,
                           unknown_len + cur_unknown_length - offset>>)
        vertices2 == [s.vertices EXCEPT ![offset + 1] =
                          VertexSome(<<cur_unknown_length>>)]
    IN  IF cur_unknown_length >= Len(s.text)
        THEN <<[s EXCEPT !.queue = queue2, !.vertices = vertices2], TRUE>>
        ELSE <<[s EXCEPT !.queue = queue2,
                         !.vertices = [vertices2 EXCEPT
                             ![cur_unknown_length + 1] = PeekedState(cu[2])]],
               FALSE>>

\* the None arm
NoneArm(nodes, s, offset, unknown_len) ==
    LET branches == terminals_prefix(nodes, s.text, offset, <<>>)
        r == NoneBranchLoop(branches, s.i, unknown_len, Len(s.text), s.queue, <<>>)
    IN  IF Len(branches) > 0
        THEN <<[s EXCEPT !.queue = r[1], !.not_ended = r[3],
                         !.vertices = [s.vertices EXCEPT ![offset + 1] =
                                           VertexSome(r[2])]],
               FALSE>>
        ELSE UnknownArm(nodes, s, offset, unknown_len)

\* the Cache arm
CacheArm(s, offset, unknown_len) ==
    LET nexts == s.vertices[offset + 1].v
        r == CacheBranchLoop(nexts, s.i, unknown_len, Len(s.text), s.queue)
    IN  <<[s EXCEPT !.queue = r[1], !.not_ended = r[2],
                    !.vertices = [s.vertices EXCEPT ![offset + 1] =
                                      VertexSome(nexts)]],
          FALSE>>

\* the index left where it is
StandStill(i) == i

\* i += 1
Advance(i) == i + 1

\* leaving the while loop: last_queue is taken
EnterScan(s) == [s EXCEPT !.pc = "scan", !.last_queue = Len(s.queue) - 1]

\* one turn of `while not_ended`, and the test of the loop after it
MainIter(nodes, s) ==
    IF s.i >= Len(s.queue) THEN [s EXCEPT !.pc = "panic"]
    ELSE LET offset == s.queue[s.i + 1][2]
             unknown_len == s.queue[s.i + 1][3]
         IN  IF offset >= Len(s.vertices) THEN [s EXCEPT !.pc = "panic"]
             ELSE LET tag == s.vertices[offset + 1].tag
                      r == CASE tag = "None" -> NoneArm(nodes, s, offset, unknown_len)
                             [] tag = "Cache" -> CacheArm(s, offset, unknown_len)
                             [] OTHER -> <<s, FALSE>>
                      s2 == r[1]
                  IN  IF r[2] THEN EnterScan(s2)
                      ELSE LET s3 == [s2 EXCEPT !.i = Advance(s2.i)]
                           IN  IF s3.not_ended THEN s3 ELSE EnterScan(s3)

\* the test with <= in place of <
ScanNotWorse(s, vs, unknown_bytes) ==
    /\ \E k \in 1..Len(vs) : vs[k] >= Len(s.text)
    /\ unknown_bytes <= s.queue[s.last_queue + 1][3]

\* the test of the finalization pass: the scanned record may take over
ScanBetter(s, vs, unknown_bytes) ==
    /\ \E k \in 1..Len(vs) : vs[k] >= Len(s.text)
    /\ unknown_bytes < s.queue[s.last_queue + 1][3]

\* the end record made its own predecessor
RepointSelf(queue, last_queue, i) ==
    [queue EXCEPT ![last_queue + 1][1] = last_queue]

\* queue[last_queue][0] = i
Repoint(queue, last_queue, i) ==
    [queue EXCEPT ![last_queue + 1][1] = i]

\* one turn of the finalization pass, or the start of the walk back
ScanIter(s) ==
    IF s.i < Len(s.queue) - 1
    THEN LET offset == s.queue[s.i + 1][2]
             unknown_bytes == s.queue[s.i + 1][3]
         IN  IF offset >= Len(s.vertices) THEN [s EXCEPT !.pc = "panic"]
             ELSE LET vx == s.vertices[offset + 1]
                      q2 == IF vx.tag = "Some" /\ ScanBetter(s, vx.v, unknown_bytes)
                            THEN Repoint(s.queue, s.last_queue, s.i)
                            ELSE s.queue
                  IN  [s EXCEPT !.queue = q2, !.i = Advance(s.i)]
    ELSE [s EXCEPT !.pc = "walk",
                   !.i = s.queue[s.last_queue + 1][1],
                   !.last_offset = s.queue[s.last_queue + 1][2]]

\* the slice pushed at the back instead
PushBack(result, from, to) == Append(result, <<from, to>>)

\* VecDeque::push_front of the slice &text[from..to]
PushFront(result, from, to) == <<<<from, to>>>> \o result

\* one turn of the walk back, or the first word and the return
WalkIter(s) ==
    IF s.i > 0
    THEN IF s.i >= Len(s.queue) THEN [s EXCEPT !.pc = "panic"]
         ELSE LET index == s.queue[s.i + 1][1]
                  offset == s.queue[s.i + 1][2]
              IN  IF ~SliceOk(s.text, offset, s.last_offset)
                  THEN [s EXCEPT !.pc = "panic"]
                  ELSE [s EXCEPT !.result = PushFront(s.result, offset, s.last_offset),
                                 !.last_offset = offset,
                                 !.i = index]
    ELSE IF ~SliceOk(s.text, 0, s.last_offset) THEN [s EXCEPT !.pc = "panic"]
         ELSE [s EXCEPT !.result = PushFront(s.result, 0, s.last_offset),
                        !.pc = "done"]

\* one step of maximal_matching
MMStep(nodes, s) ==
    CASE s.pc = "main" -> MainIter(nodes, s)
      [] s.pc = "scan" -> ScanIter(s)
      [] s.pc = "walk" -> WalkIter(s)
      [] OTHER -> s

\* maximal_matching run to its end (or to the panic): the final locals
RECURSIVE MMRun(_, _)
MMRun(nodes, s) ==
    IF s.pc \in {"done", "panic"} THEN s ELSE MMRun(nodes, MMStep(nodes, s))

\* maximal_matching(dict, text): the returned slices of text
maximal_matching(nodes, text) == MMRun(nodes, MMInit(text, 0)).result

---------------------------------------------------------------------------
(* Tokenizer::tokenize: src/tokenizer/th/mod.rs *)

IsWhitespace(b) == b = 0

\* split_whitespace from byte pos on; start is the first byte of the chunk
\* being read, or -1 between chunks.  The chunks are slices <<from, to>>.
RECURSIVE SwLoop(_, _, _, _)
SwLoop(s, pos, start, acc) ==
    IF pos >= Len(s)
    THEN IF start >= 0 THEN Append(acc, <<start, pos>>) ELSE acc
    ELSE IF IsWhitespace(s[pos + 1])
    THEN SwLoop(s, pos + 1, -1,
                IF start >= 0 THEN Append(acc, <<start, pos>>) ELSE acc)
    ELSE SwLoop(s, pos + 1, IF start >= 0 THEN start ELSE pos, acc)

\* the whole text as one chunk, white space and all
WholeText(raw) == IF raw = <<>> THEN <<>> ELSE <<<<0, Len(raw)>>>>

\* make_iter: the non-empty white-space-free chunks of raw, in order
make_iter(raw) == SwLoop(raw, 0, -1, <<>>)

\* the slices of one chunk as slices of the whole input
Rebase(result, base) ==
    [k \in 1..Len(result) |-> <<result[k][1] + base, result[k][2] + base>>]

\* the results of the chunks, the last chunk first
RECURSIVE FlattenReversed(_)
FlattenReversed(ws) ==
    IF ws = <<>> THEN <<>>
    ELSE FlattenReversed(Tail(ws)) \o Rebase(Head(ws).result, Head(ws).base)

\* flatten().collect(): the results of the chunks, in the order of the chunks
RECURSIVE Flatten(_)
Flatten(ws) ==
    IF ws = <<>> THEN <<>>
    ELSE Rebase(Head(ws).result, Head(ws).base) \o Flatten(Tail(ws))

\* the map closure started on every chunk
StartWorkers(raw) ==
    LET chunks == make_iter(raw)
    IN  [k \in 1..Len(chunks) |->
            MMInit(Slice(raw, chunks[k][1], chunks[k][2]), chunks[k][1])]

---------------------------------------------------------------------------
(* The result tree: src/tokenizer/mod.rs *)

\* the values of the nodes (T: Copy)
TreeValues == {"a", "b"}

\* struct TreeNode: value and parent are Option (<<>> is None, <<x>> is
\* Some(x)); a node is named by its place in tree, the root is node 1
TreeNode(level, value, parent, childs) ==
    [level |-> level, value |-> value, parent |-> parent, childs |-> childs]

\* TreeNode::root
TreeNodeRoot == TreeNode(0, <<>>, <<>>, <<>>)

\* add_child(self, value): the child, and the tree with the child pushed to
\* the childs of its parent
add_child(nodes, self, value) ==
    LET level == nodes[self].level
        child == TreeNode(level + 1, <<value>>, <<self>>, <<>>)
    IN  Append([nodes EXCEPT ![self].childs = Append(@, Len(nodes) + 1)], child)

\* level(&self)
level(nodes, self) == nodes[self].level

\* traverse_tree(node, vec): the values from below the root down to node
RECURSIVE traverse_tree(_, _, _)
traverse_tree(nodes, node, v) ==
    IF nodes[node].parent # <<>>
    THEN Append(traverse_tree(nodes, nodes[node].parent[1], v), nodes[node].value[1])
    ELSE v

\* the value of the node alone, its parents not walked
into_vec_own(nodes, self) ==
    IF nodes[self].value = <<>>
    THEN [status |-> "panic", node |-> self, values |-> <<>>]
    ELSE [status |-> "ok", node |-> self, values |-> <<nodes[self].value[1]>>]

\* into_vec(self), impl From<&TreeNode<T>> for Vec<T>
into_vec(nodes, self) ==
    LET v == IF nodes[self].parent # <<>>
             THEN traverse_tree(nodes, nodes[self].parent[1], <<>>)
             ELSE <<>>
    IN  IF nodes[self].value = <<>>
        THEN [status |-> "panic", node |-> self, values |-> <<>>]
        ELSE [status |-> "ok", node |-> self,
              values |-> Append(v, nodes[self].value[1])]

\* no conversion made yet
NoVec == [status |-> "none", node |-> 0, values |-> <<>>]

---------------------------------------------------------------------------
(* The state machine *)

\* no call of terminals_prefix made yet
NoQuery == [status |-> "none", value |-> <<>>, offset |-> 0, results |-> <<>>]

Init ==
    /\ dict = DictNew
    /\ sealed = <<>>
    /\ words = {}
    /\ phase = "build"
    /\ input = <<>>
    /\ workers = <<>>
    /\ out = <<>>
    /\ source = <<>>
    /\ query = NoQuery
    /\ tree = <<TreeNodeRoot>>
    /\ vec = NoVec

\* Dict::add(value), at most max_words distinct words
Add(value, max_words) ==
    /\ phase = "build"
    /\ value \in words \/ Cardinality(words) < max_words
    /\ dict' = DictAdd(dict, value)
    /\ words' = words \cup {value}
    /\ UNCHANGED <<sealed, phase, input, workers, out, source, query, tree, vec>>

\* Tokenizer::from: dict.into()
Seal ==
    /\ phase = "build"
    /\ sealed' = SizedDictFrom(dict)
    /\ phase' = "ready"
    /\ UNCHANGED <<dict, words, input, workers, out, source, query, tree, vec>>

\* Tokenizer::tokenize(value): the chunks are handed to the workers
Tokenize(value) ==
    /\ phase = "ready"
    /\ input' = value
    /\ workers' = StartWorkers(value)
    /\ phase' = "running"
    /\ UNCHANGED <<dict, sealed, words, out, source, query, tree, vec>>

\* one step of the worker of chunk k
WorkerStep(k) ==
    /\ phase = "running"
    /\ workers[k].pc \notin {"done", "panic"}
    /\ workers' = [workers EXCEPT ![k] = MMStep(sealed, @)]
    /\ UNCHANGED <<dict, sealed, words, phase, input, out, source, query, tree, vec>>

\* collect(): every worker has returned
Collect ==
    /\ phase = "running"
    /\ \A k \in 1..Len(workers) : workers[k].pc = "done"
    /\ out' = Flatten(workers)
    /\ phase' = "done"
    /\ UNCHANGED <<dict, sealed, words, input, workers, source, query, tree, vec>>

AddWord == \E value \in WordSet : Add(value, MaxWords)
TokenizeText == \E value \in TextSet : Tokenize(value)
Work == \E k \in 1..Len(workers) : WorkerStep(k)

Next == AddWord \/ Seal \/ TokenizeText \/ Work \/ Collect

\* the tokenizer on one white-space-free text
Spec == Init /\ [][Next]_vars

AddInputWord == \E value \in WordSet : Add(value, MaxInputWords)
TokenizeInput == \E value \in InputSet : Tokenize(value)

NextInput == AddInputWord \/ Seal \/ TokenizeInput \/ Work \/ Collect

\* the tokenizer on a text with white space, one worker for each chunk
SpecInput == Init /\ [][NextInput]_vars

\* Dict::load_txt, File::open fails: the error is returned by `?` before a
\* dictionary is made, and Tokenizer::new returns it in turn
OpenFails ==
    /\ phase = "build"
    /\ source = <<>>
    /\ words = {}
    /\ phase' = "error"
    /\ UNCHANGED <<dict, sealed, words, input, workers, out, source, query, tree, vec>>

\* Dict::load_txt, one turn of lines().for_each with a line read: dict.add(line)
LoadLine(line, max_lines) ==
    /\ phase = "build"
    /\ Len(source) < max_lines
    /\ dict' = DictAdd(dict, line)
    /\ words' = words \cup {line}
    /\ source' = Append(source, line)
    /\ UNCHANGED <<sealed, phase, input, workers, out, query, tree, vec>>

\* Dict::load_txt, one turn of lines().for_each with a line that fails to be
\* read: line.as_ref().unwrap() panics, and the dictionary is dropped
ReadFails ==
    /\ phase = "build"
    /\ phase' = "aborted"
    /\ dict' = DictNew
    /\ words' = {}
    /\ source' = <<>>
    /\ UNCHANGED <<sealed, input, workers, out, query, tree, vec>>

\* terminals_prefix(&dict.root, value, offset, &mut vec![]); &value[offset..]
\* panics when offset is not a character boundary
Query(value, offset) ==
    /\ phase = "ready"
    /\ query' = IF SliceOk(value, offset, Len(value))
                THEN [status |-> "ok", value |-> value, offset |-> offset,
                      results |-> terminals_prefix(sealed, value, offset, <<>>)]
                ELSE [status |-> "panic", value |-> value, offset |-> offset,
                      results |-> <<>>]
    /\ UNCHANGED <<dict, sealed, words, phase, input, workers, out, source, tree, vec>>

LoadFileLine == \E line \in LineSet : LoadLine(line, MaxLines)

NextLoad == OpenFails \/ LoadFileLine \/ ReadFails \/ Seal

\* the dictionary loaded from a file and sealed
SpecLoad == Init /\ [][NextLoad]_vars

LoadQueryLine == \E line \in QueryLineSet : LoadLine(line, MaxQueryLines)
QueryText ==
    \E value \in QueryTextSet : \E offset \in 0..Len(value) : Query(value, offset)

NextQuery == LoadQueryLine \/ Seal \/ QueryText

\* the sealed dictionary asked for the words that start at an offset
SpecQuery == Init /\ [][NextQuery]_vars

LoadEntry == \E line \in EntrySet : LoadLine(line, MaxEntryLines)

NextEntry == LoadEntry \/ Seal \/ TokenizeText \/ Work \/ Collect

\* the tokenizer of a dictionary file that may hold an empty line
SpecEntry == Init /\ [][NextEntry]_vars

AddDeepWord == \E value \in DeepWordSet : Add(value, MaxDeepWords)
TokenizeDeep == \E value \in DeepTextSet : Tokenize(value)

NextDeep == AddDeepWord \/ Seal \/ TokenizeDeep \/ Work \/ Collect

\* the tokenizer of a dictionary of short and long words on a longer text
SpecDeep == Init /\ [][NextDeep]_vars

\* Arc::clone(&parent).add_child(value)
AddChild(parent, value) ==
    /\ Len(tree) < MaxTreeNodes
    /\ tree' = add_child(tree, parent, value)
    /\ UNCHANGED <<dict, sealed, words, phase, input, workers, out, source,
                   query, vec>>

\* Vec::from(&*node.read().unwrap())
IntoVec(node) ==
    /\ vec' = into_vec(tree, node)
    /\ UNCHANGED <<dict, sealed, words, phase, input, workers, out, source,
                   query, tree>>

AddAnyChild == \E parent \in 1..Len(tree) : \E value \in TreeValues : AddChild(parent, value)
IntoVecAny == \E node \in 1..Len(tree) : IntoVec(node)

NextTree == AddAnyChild \/ IntoVecAny

\* the result tree built child by child and converted
SpecTree == Init /\ [][NextTree]_vars

\* the single-thread build of tokenize: the chunks one after the other, from
\* chunk k (1-based) on
RECURSIVE SingleThreadLoop(_, _, _, _)
SingleThreadLoop(nodes, raw, chunks, k) ==
    IF k > Len(chunks) THEN <<>>
    ELSE LET boundary == Slice(raw, chunks[k][1], chunks[k][2])
         IN  Rebase(maximal_matching(nodes, boundary), chunks[k][1])
                 \o SingleThreadLoop(nodes, raw, chunks, k + 1)

tokenize_single_thread(nodes, value) ==
    SingleThreadLoop(nodes, value, make_iter(value), 1)

---------------------------------------------------------------------------
(* The segmentation graph of a text T over a set D of words, stated from    *)
(* the set of words alone                                                   *)

\* the ends e of the words of D that start at u
KnownEnds(D, T, u) == {e \in (u + 1)..Len(T) : Slice(T, u, e) \in D}

\* the boundary the isolation of an unknown word from u stops at
IsolationEnd(D, T, u) ==
    LET stops == {p \in (u + 1)..Len(T) :
                     /\ IsCharBoundary(T, p)
                     /\ KnownEnds(D, T, p) # {} \/ p = Len(T)}
    IN  CHOOSE p \in stops : \A q \in stops : p <= q

\* the edges that leave u
EdgesFrom(D, T, u) ==
    IF KnownEnds(D, T, u) # {} THEN KnownEnds(D, T, u)
    ELSE {IsolationEnd(D, T, u)}

\* the unknown bytes of the edge u -> v
EdgeUnknown(D, T, u, v) == IF KnownEnds(D, T, u) # {} THEN 0 ELSE v - u

\* every path from u to the end of T, as the sequence of its vertices
RECURSIVE PathsFrom(_, _, _)
PathsFrom(D, T, u) ==
    IF u >= Len(T) THEN {<<u>>}
    ELSE UNION {{<<u>> \o p : p \in PathsFrom(D, T, v)} : v \in EdgesFrom(D, T, u)}

Hops(p) == Len(p) - 1

RECURSIVE PathUnknown(_, _, _)
PathUnknown(D, T, p) ==
    IF Len(p) < 2 THEN 0
    ELSE EdgeUnknown(D, T, p[1], p[2]) + PathUnknown(D, T, Tail(p))

\* the vertices of the path a result walks
ResultPath(result) == <<0>> \o [k \in 1..Len(result) |-> result[k][2]]

IsPath(D, T, p) ==
    /\ Len(p) >= 2
    /\ p[1] = 0
    /\ p[Len(p)] = Len(T)
    /\ \A k \in 1..(Len(p) - 1) : p[k] < Len(T) /\ p[k + 1] \in EdgesFrom(D, T, p[k])

MinHops(D, T) ==
    LET ps == PathsFrom(D, T, 0)
    IN  CHOOSE h \in {Hops(p) : p \in ps} : \A q \in ps : h <= Hops(q)

\* the workers that have returned
Returned == {k \in 1..Len(workers) : workers[k].pc = "done"}

---------------------------------------------------------------------------
(* Claims *)

\* C1: the tokens maximal_matching returns are non-empty, are consecutive
\* slices of the text in order, and their concatenation is the text.
C1_SegCover ==
    \A k \in Returned :
        LET r == workers[k].result
            T == workers[k].text
        IN  /\ Len(r) >= 1
            /\ r[1][1] = 0
            /\ r[Len(r)][2] = Len(T)
            /\ \A j \in 1..Len(r) : r[j][1] < r[j][2]
            /\ \A j \in 1..(Len(r) - 1) : r[j][2] = r[j + 1][1]
            /\ Concat([j \in 1..Len(r) |-> Slice(T, r[j][1], r[j][2])]) = T

\* a returned result of three tokens or more, one of them an unknown word
C1_Witness ==
    \E k \in Returned :
        /\ Len(workers[k].result) >= 3
        /\ \E j \in 1..Len(workers[k].result) :
               KnownEnds(words, workers[k].text, workers[k].result[j][1]) = {}

\* C2: the number of tokens maximal_matching returns is the least number of
\* edges of a path from 0 to the end of the text in the segmentation graph.
C2_TokenCountMinimal ==
    \A k \in Returned :
        Len(workers[k].result) = MinHops(words, workers[k].text)


\* the unknown bytes and the edges of a path as one number, unknown bytes first
UnknownFirst(D, T, p) == PathUnknown(D, T, p) * (Len(T) + 1) + Hops(p)

\* C3: the returned segmentation is a path of the segmentation graph that has
\* the least unknown bytes, and the least number of tokens among those.
C3_SegOptimality ==
    \A k \in Returned :
        LET T == workers[k].text
            p == ResultPath(workers[k].result)
        IN  /\ IsPath(words, T, p)
            /\ \A q \in PathsFrom(words, T, 0) :
                   UnknownFirst(words, T, p) <= UnknownFirst(words, T, q)

\* C4: when the returned path has the least number of edges, it has the
\* least unknown bytes among the paths of the least number of edges.
C4_TieBreak ==
    \A k \in Returned :
        LET T == workers[k].text
            p == ResultPath(workers[k].result)
        IN  Hops(p) = MinHops(words, T) =>
            \A q \in PathsFrom(words, T, 0) :
                Hops(q) = Hops(p) => PathUnknown(words, T, p) <= PathUnknown(words, T, q)

\* p is the one path of the least number of edges, and every edge of it is a word
UniqueKnownParse(D, T, p) ==
    /\ PathUnknown(D, T, p) = 0
    /\ \A q \in PathsFrom(D, T, 0) \ {p} : Hops(q) > Hops(p)

\* C5: a text that is a concatenation of words, with no other parse of as few
\* tokens, comes back as exactly those words.
C5_RoundTrip ==
    \A k \in Returned :
        LET T == workers[k].text
        IN  \A p \in PathsFrom(words, T, 0) :
                UniqueKnownParse(words, T, p) => ResultPath(workers[k].result) = p

\* a returned concatenation of three distinct words that has another, longer parse
C5_Witness ==
    \E k \in Returned :
        LET T == workers[k].text
            r == workers[k].result
        IN  /\ Len(r) = 3
            /\ UniqueKnownParse(words, T, ResultPath(r))
            /\ Cardinality(PathsFrom(words, T, 0)) >= 2
            /\ Cardinality({Slice(T, r[j][1], r[j][2]) : j \in 1..3}) = 3

\* C6: the search never fails: in the main loop the read index is below the
\* length of the worklist and the record read has an offset below the length
\* of the text; no access of the run is out of range.
C6_NoFailure ==
    \A k \in 1..Len(workers) :
        LET s == workers[k]
        IN  /\ s.pc # "panic"
            /\ s.pc = "main" => /\ s.i < Len(s.queue)
                                /\ s.queue[s.i + 1][2] < Len(s.text)

\* the main loop at its third record or later, with a vertex cached ahead
C6_Witness ==
    \E k \in 1..Len(workers) :
        /\ workers[k].pc = "main"
        /\ workers[k].i >= 2
        /\ \E o \in 1..Len(workers[k].vertices) : workers[k].vertices[o].tag = "Cache"

\* an upper bound of the length of the worklist of text: every vertex is
\* expanded from None once and from Cache once at most, and an expansion
\* appends one record for each later offset at most
QueueBound(text) == 2 + 2 * Len(text) * Len(text)

\* the steps a run can still take, at most: the loops left to run, and the
\* turns left in the running loop
Measure(s) ==
    LET B == QueueBound(s.text)
    IN  CASE s.pc = "main" -> 2 * B + 1 + (B - s.i)
          [] s.pc = "scan" -> B + 1 + (B - s.i)
          [] s.pc = "walk" -> 1 + s.i
          [] OTHER -> 0

\* C7: maximal_matching returns: every step of the main loop, of the
\* finalization pass and of the walk back strictly lowers a measure that is
\* a natural number, and no step fails, so each of the three loops ends.
C7_Terminates ==
    \A k \in 1..Len(workers) :
        LET s == workers[k]
            t == MMStep(sealed, s)
        IN  /\ s.pc # "panic"
            /\ Measure(s) >= 0
            /\ s.pc # "done" => Measure(t) < Measure(s) /\ Measure(t) >= 0

\* a run that has returned after turns of all three loops
C7_Witness ==
    \E k \in Returned :
        /\ Len(workers[k].result) >= 3
        /\ workers[k].last_queue >= 4
        /\ workers[k].not_ended = FALSE

\* C8: with the empty dictionary a chunk is tokenized into one token, the
\* whole chunk.
C8_EmptyDict ==
    words = {} =>
        \A k \in 1..Len(workers) :
            /\ workers[k].pc # "panic"
            /\ workers[k].pc = "done" =>
                   workers[k].result = <<<<0, Len(workers[k].text)>>>>

\* the empty dictionary and a returned chunk of several characters
C8_Witness ==
    /\ words = {}
    /\ \E k \in Returned : Len(Chars(workers[k].text)) >= 3


\* the bytes of s that are not white space
RECURSIVE NoWhitespace(_)
NoWhitespace(s) ==
    IF s = <<>> THEN <<>>
    ELSE (IF s[1] = 0 THEN <<>> ELSE <<s[1]>>) \o NoWhitespace(Tail(s))

\* the white-space-free runs of s that no white-space-free byte borders
MaximalRuns(s) ==
    {r \in (0..Len(s)) \X (0..Len(s)) :
        /\ r[1] < r[2]
        /\ \A b \in (r[1] + 1)..r[2] : s[b] # 0
        /\ r[1] = 0 \/ s[r[1]] = 0
        /\ r[2] = Len(s) \/ s[r[2] + 1] = 0}

\* C9: tokenize on a text with any white space returns non-empty tokens with
\* no white space in them, whose concatenation is the text without its white
\* space; a chunk in which no word starts comes back as one token.
C9_Tokenize ==
    phase = "done" =>
        /\ \A j \in 1..Len(out) :
               /\ out[j][1] < out[j][2]
               /\ out[j][2] <= Len(input)
               /\ \A b \in (out[j][1] + 1)..out[j][2] : input[b] # 0
        /\ Concat([j \in 1..Len(out) |-> Slice(input, out[j][1], out[j][2])])
               = NoWhitespace(input)
        /\ \A r \in MaximalRuns(input) :
               (\A u \in r[1]..(r[2] - 1) :
                    KnownEnds(words, Slice(input, r[1], r[2]), u - r[1]) = {})
               => \E j \in 1..Len(out) : out[j] = r

\* a tokenized text of a known chunk and an unknown chunk with repeated white
\* space between them
C9_Witness ==
    /\ phase = "done"
    /\ Len(out) = 2
    /\ out[1][2] + 2 <= out[2][1]
    /\ Slice(input, out[1][1], out[1][2]) \in words
    /\ Slice(input, out[2][1], out[2][2]) \notin words

\* the states maximal_matching goes through from s
RECURSIVE Trajectory(_, _)
Trajectory(nodes, s) ==
    IF s.pc \in {"done", "panic"} THEN {s}
    ELSE {s} \cup Trajectory(nodes, MMStep(nodes, s))

\* C10: whatever the interleaving of the workers, the returned tokens are
\* those of the chunks one after the other in the order of the chunks; a
\* worker is at a state of the run of its own chunk alone, and the sealed
\* dictionary stays as it was sealed.
C10_Deterministic ==
    phase \in {"running", "done"} =>
        /\ sealed = SizedDictFrom(dict)
        /\ Len(workers) = Cardinality(MaximalRuns(input))
        /\ \A k \in 1..Len(workers) :
               \E r \in MaximalRuns(input) :
                   /\ Cardinality({q \in MaximalRuns(input) : q[1] < r[1]}) = k - 1
                   /\ workers[k] \in
                          Trajectory(sealed, MMInit(Slice(input, r[1], r[2]), r[1]))
        /\ phase = "done" => out = tokenize_single_thread(sealed, input)

\* the second worker has returned and the first is still searching
C10_Witness ==
    /\ phase = "running"
    /\ Len(workers) >= 2
    /\ workers[2].pc = "done"
    /\ workers[1].pc = "main"
    /\ words # {}

---------------------------------------------------------------------------
(* The dictionary as a tree, read from its nodes *)

\* the childs of a node of the mutable dictionary; no list counts as no child
ChildsOf(node) == IF node.childs = NoneChilds THEN <<>> ELSE node.childs[1]

\* the first characters of the siblings strictly increase, at every level
RECURSIVE TSorted(_)
TSorted(nodes) ==
    /\ \A k \in 1..(Len(nodes) - 1) :
           FirstCharCode(nodes[k].value) < FirstCharCode(nodes[k + 1].value)
    /\ \A k \in 1..Len(nodes) : TSorted(ChildsOf(nodes[k]))

\* the strings spelled by the values from a root to a terminal node
RECURSIVE TerminalPaths(_, _)
TerminalPaths(nodes, prefix) ==
    UNION {(IF nodes[k].terminal THEN {prefix \o nodes[k].value} ELSE {})
               \cup TerminalPaths(ChildsOf(nodes[k]), prefix \o nodes[k].value) :
           k \in 1..Len(nodes)}

\* the same of the sealed dictionary
RECURSIVE SizedTerminalPaths(_, _)
SizedTerminalPaths(nodes, prefix) ==
    UNION {(IF nodes[k].terminal THEN {prefix \o nodes[k].value} ELSE {})
               \cup SizedTerminalPaths(nodes[k].childs, prefix \o nodes[k].value) :
           k \in 1..Len(nodes)}

\* node for node the same value, terminal bit and childs in the same order
RECURSIVE SameStructure(_, _)
SameStructure(nodes, sized) ==
    /\ Len(nodes) = Len(sized)
    /\ \A k \in 1..Len(nodes) :
           /\ nodes[k].value = sized[k].value
           /\ nodes[k].terminal = sized[k].terminal
           /\ SameStructure(ChildsOf(nodes[k]), sized[k].childs)

\* the longest chain of nodes below nodes
RECURSIVE Depth(_)
Depth(nodes) ==
    IF nodes = <<>> THEN 0
    ELSE LET ds == {Depth(ChildsOf(nodes[k])) : k \in 1..Len(nodes)}
         IN  1 + CHOOSE d \in ds : \A e \in ds : e <= d

\* a node that is not terminal has two childs or more, a node with no child
\* is terminal, and try_merge leaves every node as it is
RECURSIVE Compressed(_)
Compressed(nodes) ==
    \A k \in 1..Len(nodes) :
        /\ ~nodes[k].terminal => Len(ChildsOf(nodes[k])) >= 2
        /\ Len(ChildsOf(nodes[k])) = 0 => nodes[k].terminal
        /\ try_merge(nodes[k]) = nodes[k]
        /\ Compressed(ChildsOf(nodes[k]))

\* the lines of a source, each distinct line once, at its first place
RECURSIVE Dedup(_, _)
Dedup(lines, seen) ==
    IF lines = <<>> THEN <<>>
    ELSE IF Head(lines) \in seen THEN Dedup(Tail(lines), seen)
    ELSE <<Head(lines)>> \o Dedup(Tail(lines), seen \cup {Head(lines)})

\* the dictionary after the lines are added to root one after the other
RECURSIVE LoadAll(_, _)
LoadAll(root, lines) ==
    IF lines = <<>> THEN root
    ELSE LoadAll(DictAdd(root, Head(lines)), Tail(lines))

\* the elements of a sequence
Range(f) == {f[k] : k \in 1..Len(f)}

---------------------------------------------------------------------------
(* Claims on the dictionary *)

\* C11: after any sequence of additions of non-empty words, at every level of
\* the dictionary the first characters of the siblings are strictly increasing.
C11_TSort == <<>> \notin words => TSorted(dict)

\* three siblings at the root, added from the greatest first character down,
\* two of them with the same first byte
C11_Witness ==
    /\ <<>> \notin words
    /\ Len(source) = 3
    /\ Len(dict) = 3
    /\ FirstCharCode(source[1]) > FirstCharCode(source[2])
    /\ FirstCharCode(source[2]) > FirstCharCode(source[3])
    /\ source[1][1] = source[2][1]

\* C12: after any sequence of additions of non-empty words, the strings spelled
\* from a root to a terminal node are exactly the words added: none is
\* missing, none is lost by a later addition, and none was never added.
C12_TCover == <<>> \notin words => TerminalPaths(dict, <<>>) = words

\* three words, one of them the value of a node that was split for the two
\* others and marked terminal after
C12_Witness ==
    /\ <<>> \notin words
    /\ Cardinality(words) = 3
    /\ \E k \in 1..Len(dict) :
           /\ dict[k].terminal
           /\ Len(ChildsOf(dict[k])) >= 2
           /\ source[3] = dict[k].value

\* C13: adding a non-empty word that is in the dictionary already leaves the
\* dictionary, and the sealed dictionary made from it, node for node as it was.
C13_Idempotent ==
    <<>> \notin words =>
        \A w \in words :
            /\ DictAdd(dict, w) = dict
            /\ SizedDictFrom(DictAdd(dict, w)) = SizedDictFrom(dict)

\* a line read a second time, a word with childs below it, and the
\* dictionary sealed after
C13_Witness ==
    /\ phase = "ready"
    /\ <<>> \notin words
    /\ Len(source) = 3
    /\ source[3] = source[1]
    /\ source[2] # source[1]
    /\ StartsWith(source[2], source[1])

\* C14: a source in which a line occurs more than once, the empty line
\* included, gives the dictionary of the source with each distinct line once.
C14_Duplicates == dict = LoadAll(DictNew, Dedup(source, {}))

\* C15: with the empty entry in the dictionary, a non-empty chunk without
\* white space is still tokenized without failure, into non-empty tokens
\* whose concatenation is the chunk.
C15_EmptyEntry ==
    <<>> \in words =>
        \A k \in 1..Len(workers) :
            LET r == workers[k].result
                T == workers[k].text
            IN  /\ workers[k].pc # "panic"
                /\ workers[k].pc = "done" =>
                       /\ \A j \in 1..Len(r) : r[j][1] < r[j][2]
                       /\ Concat([j \in 1..Len(r) |-> Slice(T, r[j][1], r[j][2])]) = T

\* the words of the dictionary that are a piece of T from k, as ends
EntryEnds(D, T, k) == {e \in k..Len(T) : Slice(T, k, e) \in D}

\* the texts a dictionary of words D is probed with: a word, or two in a row
ProbeSet(D) == D \cup {v \o w : v \in D, w \in D}

\* C16: the sealed dictionary has at every place the value, the terminal bit
\* and the childs, in their order, of the dictionary it was made from, so it
\* spells the same words and terminals_prefix on it answers for those words.
C16_SealPreserves ==
    phase = "ready" =>
        /\ SameStructure(dict, sealed)
        /\ SizedTerminalPaths(sealed, <<>>) = TerminalPaths(dict, <<>>)
        /\ \A T \in ProbeSet(words) :
               \A k \in 0..Len(T) :
                   IsCharBoundary(T, k) =>
                       Range(terminals_prefix(sealed, T, k, <<>>))
                           = EntryEnds(TerminalPaths(dict, <<>>), T, k)

\* a sealed dictionary three nodes deep, with a node that is not terminal
C16_Witness ==
    /\ phase = "ready"
    /\ Depth(dict) = 3
    /\ \E k \in 1..Len(sealed) : ~sealed[k].terminal /\ Len(sealed[k].childs) = 2

\* the results of the last call are the ends of the words that start at its
\* offset, each once
QueryExact ==
    /\ query.status = "ok"
    /\ Range(query.results) = KnownEnds(words, query.value, query.offset)
    /\ Cardinality(Range(query.results)) = Len(query.results)

\* terminals_prefix called at any byte offset up to the length of the text
C17_AnyOffset ==
    (query.status # "none" /\ <<>> \notin words) => QueryExact

\* C17: for a dictionary of non-empty words, a text T and an offset k that
\* is a character boundary of T, terminals_prefix appends to an empty
\* accumulator exactly the ends e, k < e <= len(T), with T[k..e] a word.
C17_PrefixQuery ==
    (/\ query.status # "none"
     /\ <<>> \notin words
     /\ IsCharBoundary(query.value, query.offset)) => QueryExact

\* a call past the start of the text that finds a word and the word one
\* two-byte character longer
C17_Witness ==
    /\ query.status = "ok"
    /\ <<>> \notin words
    /\ query.offset > 0
    /\ Len(query.results) = 2
    /\ query.results[2] = query.results[1] + 2

\* C18: the ends terminals_prefix appends in one call are pairwise distinct
\* and strictly increasing, the last one the longest match.
C18_Increasing ==
    query.status = "ok" =>
        \A j \in 1..(Len(query.results) - 1) :
            query.results[j] < query.results[j + 1]

\* C19: a failure of the dictionary file, at its opening or at the reading of
\* a line, comes back to the caller as an error value: the load never aborts,
\* and no dictionary or tokenizer is made.
C19_LoadErrors ==
    /\ phase # "aborted"
    /\ phase = "error" => dict = DictNew /\ sealed = <<>> /\ workers = <<>>

\* the seven words of test_add_dict, a character as one byte in the order of
\* the characters, and the dictionary the test expects
SevenWords ==
    << <<17, 60, 35>>,
       <<17, 60, 35, 36, 83, 60, 35>>,
       <<17, 60, 35, 11, 47, 66, 82, 43>>,
       <<17, 60, 35, 74, 45, 65, 55, 35>>,
       <<11, 60, 45, 17, 60, 35>>,
       <<11, 60, 45, 36, 83, 60, 35>>,
       <<17, 60, 20, 83, 60, 17>> >>

Leaf(value) == Node(SomeChilds(<<>>), TRUE, value)

SevenWordsDict ==
    << Node(SomeChilds(<< Leaf(<<17, 60, 35>>), Leaf(<<36, 83, 60, 35>>) >>),
            FALSE, <<11, 60, 45>>),
       Node(SomeChilds(<< Leaf(<<20, 83, 60, 17>>),
                          Node(SomeChilds(<< Leaf(<<11, 47, 66, 82, 43>>),
                                             Leaf(<<36, 83, 60, 35>>),
                                             Leaf(<<74, 45, 65, 55, 35>>) >>),
                               TRUE, <<35>>) >>),
            FALSE, <<17, 60>>) >>

\* C20: after any sequence of additions of non-empty words the dictionary is
\* compressed: a node that is not terminal has two childs or more, a node
\* with no child is terminal, and try_merge changes no node; the seven words
\* of the test give the dictionary of two roots the test expects.
C20_Compressed ==
    /\ <<>> \notin words => Compressed(dict)
    /\ LoadAll(DictNew, SevenWords) = SevenWordsDict

\* a node that is not terminal above a terminal node that has a child
C20_Witness ==
    /\ <<>> \notin words
    /\ \E k \in 1..Len(dict) :
           /\ ~dict[k].terminal
           /\ \E c \in 1..Len(ChildsOf(dict[k])) :
                  /\ ChildsOf(dict[k])[c].terminal
                  /\ Len(ChildsOf(ChildsOf(dict[k])[c])) = 1

\* every list of siblings of the dictionary: the root and the childs of every node
RECURSIVE SiblingLists(_)
SiblingLists(nodes) ==
    {nodes} \cup UNION {SiblingLists(ChildsOf(nodes[k])) : k \in 1..Len(nodes)}

\* no node has the empty value
RECURSIVE NoEmptyLabel(_)
NoEmptyLabel(nodes) ==
    \A k \in 1..Len(nodes) :
        nodes[k].value # <<>> /\ NoEmptyLabel(ChildsOf(nodes[k]))

\* C21: after every addition of a non-empty word (a new node, an exact match,
\* a descent into the childs, a split with the word as prefix, a split with
\* two different rests) no node of the dictionary has the empty value.
C21_NoEmptyLabel == <<>> \notin words => NoEmptyLabel(dict)

\* one root that was split in two rests and then split again by a word that
\* is a prefix of it
C21_Witness ==
    /\ <<>> \notin words
    /\ Len(source) = 3
    /\ Len(dict) = 1
    /\ dict[1].terminal
    /\ source[3] = dict[1].value
    /\ Len(ChildsOf(dict[1])) = 1
    /\ LET c == ChildsOf(dict[1])[1] IN ~c.terminal /\ Len(ChildsOf(c)) = 2

\* the elements of a set one after the other, in an order that depends on
\* the set alone
RECURSIVE SetToSeq(_)
SetToSeq(S) ==
    IF S = {} THEN <<>>
    ELSE LET x == CHOOSE y \in S : TRUE
         IN  <<x>> \o SetToSeq(S \ {x})

\* C27: the dictionary depends on the set of the non-empty words added and
\* not on the order they were added in: it is the dictionary of the same
\* words added in one order fixed by the set.
C27_OrderIndependent ==
    <<>> \notin words => dict = LoadAll(DictNew, SetToSeq(words))

\* three distinct words added in an order that is not the fixed one, with a
\* node split on the way
C27_Witness ==
    /\ <<>> \notin words
    /\ Cardinality(words) = 3
    /\ source # SetToSeq(words)
    /\ Depth(dict) >= 2
    /\ \E k \in 1..Len(dict) : ~dict[k].terminal

\* the first character of a string, as its bytes
FirstChar(w) == Chars(w)[1]

\* the bytes of the longest prefix of whole characters a and b have in common
CommonBytes(a, b) ==
    LET ns == {n \in 0..Len(a) :
                  /\ n <= Len(b)
                  /\ SubSeq(a, 1, n) = SubSeq(b, 1, n)
                  /\ IsCharBoundary(a, n)
                  /\ IsCharBoundary(b, n)}
    IN  CHOOSE n \in ns : \A m \in ns : m <= n

\* the non-empty words find_longest_prefix is asked for
ProbeWords == QueryLineSet \ {<<>>}

---------------------------------------------------------------------------
(* Claims on the search of maximal_matching *)

\* the order of the states of a vertex
Rank(vx) == CASE vx.tag = "None" -> 0 [] vx.tag = "Cache" -> 1 [] OTHER -> 2

\* C22: in one run of maximal_matching the state of a vertex only moves
\* forward, None to Cache to Some or None to Some: no step of the run takes
\* a vertex from Some back to Cache or None, or from Cache back to None.
C22_NoRegress ==
    \A k \in 1..Len(workers) :
        LET s == workers[k]
            t == MMStep(sealed, s)
        IN  s.pc = "main" =>
                \A o \in 1..Len(s.vertices) :
                    Rank(s.vertices[o]) <= Rank(t.vertices[o])

\* the edges of the chain of back-pointers from record j (0-based) to record 0
RECURSIVE ChainHops(_, _)
ChainHops(queue, j) ==
    IF j = 0 THEN 0 ELSE 1 + ChainHops(queue, queue[j + 1][1])

\* the run from s up to the state in which the main loop has just been left
RECURSIVE RunToScan(_, _)
RunToScan(nodes, s) ==
    IF s.pc # "main" THEN s ELSE RunToScan(nodes, MMStep(nodes, s))

\* the state in which the run of worker k left the main loop
AtScanEntry(k) == RunToScan(sealed, MMInit(workers[k].text, workers[k].base))

\* C23: the records are read in the order they were appended, and the first
\* record appended with an offset at the end of the text, which ends the main
\* loop, is on a chain of back-pointers with the least number of edges of a
\* path from 0 to the end of the text in the segmentation graph.
C23_FirstEndMinimal ==
    \A k \in 1..Len(workers) :
        LET s == workers[k]
            t == MMStep(sealed, s)
            n == Len(s.text)
        IN  s.pc = "main" =>
                /\ t.pc # "panic"
                /\ t.i \in {s.i, s.i + 1}
                /\ SubSeq(t.queue, 1, Len(s.queue)) = s.queue
                /\ \A j \in 1..Len(s.queue) : s.queue[j][2] < n
                /\ t.pc = "main" =>
                       /\ t.i = s.i + 1
                       /\ \A j \in 1..Len(t.queue) : t.queue[j][2] < n
                /\ t.pc = "scan" =>
                       /\ t.last_queue = Len(t.queue) - 1
                       /\ t.queue[t.last_queue + 1][2] >= n
                       /\ \A j \in 1..t.last_queue : t.queue[j][2] < n
                       /\ ChainHops(t.queue, t.last_queue) = MinHops(words, s.text)

\* the main loop just left with an end record three edges from the start,
\* after a record of a vertex that was expanded already
C23_Witness ==
    \E k \in 1..Len(workers) :
        LET s == workers[k]
        IN  /\ s.pc = "scan"
            /\ s = AtScanEntry(k)
            /\ ChainHops(s.queue, s.last_queue) = 3
            /\ \E a \in 1..Len(s.queue) : \E b \in 1..Len(s.queue) :
                   a < b /\ s.queue[a][2] = s.queue[b][2]

\* the scanned record of s has a vertex that is Some with an edge to the end
ScannedQualifies(s) ==
    LET vx == s.vertices[s.queue[s.i + 1][2] + 1]
    IN  /\ vx.tag = "Some"
        /\ \E e \in 1..Len(vx.v) : vx.v[e] >= Len(s.text)

\* the unknown bytes of the record that is the predecessor of the end record
PredUnknown(s) == s.queue[s.queue[s.last_queue + 1][1] + 1][3]

\* C24: a turn of the finalization pass makes the scanned record the
\* predecessor of the end record only when its vertex is Some with an edge to
\* the end and its unknown bytes are strictly less than those of the
\* predecessor so far, and always then; so the predecessor left by the pass has
\* the least unknown bytes among the first predecessor and those records.
C24_Finalization ==
    \A k \in 1..Len(workers) :
        LET s == workers[k]
            t == MMStep(sealed, s)
            last == s.last_queue
        IN  (s.pc = "scan" /\ s.i < Len(s.queue) - 1) =>
                LET better == ScannedQualifies(s) /\ s.queue[s.i + 1][3] < PredUnknown(s)
                IN  /\ t.queue[last + 1][1] # s.queue[last + 1][1] =>
                           t.queue[last + 1][1] = s.i /\ better
                    /\ better => t.queue[last + 1][1] = s.i

C26_BackPointers ==
    \A k \in 1..Len(workers) :
        LET s == workers[k]
        IN  /\ s.pc # "panic"
            /\ \A j \in 2..Len(s.queue) :
                   /\ s.queue[j][1] < j - 1
                   /\ s.queue[s.queue[j][1] + 1][2] < s.queue[j][2]
            /\ s.pc = "walk" =>
                   /\ s.i < Len(s.queue)
                   /\ s.queue[s.i + 1][2] < s.last_offset
                   /\ s.i > 0 => s.queue[s.i + 1][1] < s.i
            /\ \A j \in 1..Len(s.result) : s.result[j][1] < s.result[j][2]
            /\ s.pc = "done" => s.result[1][1] = 0

\* a returned run whose end record was given another predecessor by the
\* finalization pass
C26_Witness ==
    \E k \in Returned :
        LET s == workers[k]
        IN  /\ s.queue[s.last_queue + 1][1] # AtScanEntry(k).queue[s.last_queue + 1][1]
            /\ Len(s.result) >= 3

---------------------------------------------------------------------------
(* Claims on the result tree *)

\* the node reached from node n by going to the parent up times
RECURSIVE Ancestor(_, _)
Ancestor(n, up) == IF up = 0 THEN n ELSE Ancestor(tree[n].parent[1], up - 1)

\* C28: a child made by add_child has the level of its parent plus one, the
\* root has level 0; a node that is not the root converts to the values on
\* the path from the child of the root down to the node, in order, and
\* nothing else; the conversion of the root fails with the panic.
C28_Tree ==
    /\ level(tree, 1) = 0
    /\ tree[1].parent = <<>>
    /\ \A n \in 2..Len(tree) :
           /\ tree[n].parent # <<>>
           /\ level(tree, n) = level(tree, tree[n].parent[1]) + 1
    /\ vec.status # "none" =>
           IF vec.node = 1 THEN vec.status = "panic"
           ELSE /\ vec.status = "ok"
                /\ Len(vec.values) = level(tree, vec.node)
                /\ \A j \in 1..Len(vec.values) :
                       LET a == Ancestor(vec.node, Len(vec.values) - j)
                       IN  /\ level(tree, a) = j
                           /\ vec.values[j] = tree[a].value[1]

\* the conversion of a node two levels down that has a sibling with another
\* value and a child
C28_Witness ==
    /\ vec.status = "ok"
    /\ Len(vec.values) = 2
    /\ vec.values[1] # vec.values[2]
    /\ tree[vec.node].childs # <<>>
    /\ \E n \in 1..Len(tree) :
           /\ n # vec.node
           /\ tree[n].parent = tree[vec.node].parent
           /\ tree[n].value # tree[vec.node].value

====
